---------------------------- MODULE Spec2Model ----------------------------
(***************************************************************************)
(* FlexTimer of moonraker/eventloop.py on top of the asyncio event loop.   *)
(*                                                                         *)
(* The timer's own fields are `running` and `timer_handle`.  The host loop *)
(* is the environment: `now` is its monotonic clock, `handles` the handles *)
(* call_at returned (index = handle identity), `ready` the _call_wrapper   *)
(* tasks that create_task queued and whose body has not begun (FIFO), and  *)
(* `suspended` the _call_wrapper tasks parked at `await ret`.              *)
(*                                                                         *)
(* A task carries the identity of the handle whose firing created it, so a *)
(* "dispatch" is one handle together with the task it leads to.            *)
(*                                                                         *)
(* A user callback is an input: it returns a timestamp, raises, or returns *)
(* an awaitable that later yields a timestamp or fails.  A callback that   *)
(* itself calls stop()/start() is the awaitable case with Stop/Start taken *)
(* before Resume at the same loop time.                                    *)
(*                                                                         *)
(* EventLoop.delay_callback is modelled next to the timer: `delayed` holds *)
(* the handles call_later returned for it.  SpecDelay is the specification *)
(* of delay_callback alone, Spec that of the timer alone.                  *)
(***************************************************************************)
EXTENDS Integers, Sequences, FiniteSets

VARIABLES
    now,            \* loop time, eventloop.get_loop_time()
    running,        \* FlexTimer.running
    timer_handle,   \* FlexTimer.timer_handle: a handle identity or None
    handles,        \* every handle call_at has returned, in creation order
    ready,          \* queued _call_wrapper tasks, body not begun
    suspended,      \* _call_wrapper tasks awaiting the callback's awaitable
    lastCall,       \* history: the latest callback invocation
    stopSeen,       \* history: dispatches still pending that a stop() did not cancel
    stopDuring,     \* history: dispatches still suspended that a stop() came across
    everStopped,    \* history: stop() has taken effect at least once
    earlyStop,      \* history: the last stop() cancelled start()'s handle before it was due
    lastOp,         \* history: "start" or "stop" when that was the last call
    delayed         \* the handles delay_callback has returned, in creation order

vars == <<now, running, timer_handle, handles, ready, suspended,
          lastCall, stopSeen, stopDuring, everStopped, earlyStop, lastOp,
          delayed>>

\* the timer's part of the state
tvars == <<running, timer_handle, handles, ready, suspended,
           lastCall, stopSeen, stopDuring, everStopped, earlyStop>>

hist == <<lastCall, stopSeen, stopDuring, everStopped, earlyStop>>

(* ------------------------------ bounds -------------------------------- *)
MaxTime == 2
MaxHandles == 3
MaxDelay == 1
MaxDelayed == 2

Delays == 0..MaxDelay
\* timestamps a callback may return: the current loop time or later
RetTimes == now..(now + MaxDelay)

None == 0

HandleIds == 1..Len(handles)

Range(s) == {s[i] : i \in 1..Len(s)}

(* ------------------------- host loop primitives ----------------------- *)
\* loop.call_at(when, self._schedule_task): a new handle, identity Len+1.
\* `by` records the caller: None for start(), else the dispatch whose
\* _call_wrapper made the call.
call_at(when, by) ==
    Append(handles, [when |-> when, st |-> "scheduled", by |-> by])

NewHandle == Len(handles) + 1

cancel_mut(h) == handles
\* TimerHandle.cancel()
cancel(h) == [handles EXCEPT ![h].st = "cancelled"]

\* a handle the loop may run: scheduled, not cancelled, and due
Due(h) == handles[h].st = "scheduled" /\ handles[h].when <= now

\* scheduling requests outstanding with the loop
Outstanding == {h \in HandleIds : handles[h].st = "scheduled"}

(* ------------------------------ FlexTimer ------------------------------ *)
StartGuard_mut == FALSE
\* start(): `if self.running: return`
StartGuard == running

FireTime_mut(d) == now
\* start(): call_time = get_loop_time() + delay
FireTime(d) == now + d

Start(d) ==
    /\ IF StartGuard
         THEN UNCHANGED <<running, timer_handle, handles>>
         ELSE /\ Len(handles) < MaxHandles
              /\ running' = TRUE
              /\ handles' = call_at(FireTime(d), None)
              /\ timer_handle' = NewHandle
    /\ earlyStop' = (StartGuard /\ earlyStop)
    /\ lastOp' = "start"
    /\ UNCHANGED delayed
    /\ UNCHANGED <<now, ready, suspended, lastCall, stopSeen, stopDuring, everStopped>>

StopTimer_mut ==
    /\ running' = ~running
    /\ UNCHANGED <<timer_handle, handles>>
\* stop(), the timer's own fields: the early return, the flag, the cancel
StopTimer ==
    IF ~running
      THEN UNCHANGED <<running, timer_handle, handles>>
      ELSE /\ running' = FALSE
           /\ IF timer_handle # None
                THEN /\ handles' = cancel(timer_handle)
                     /\ timer_handle' = None
                ELSE UNCHANGED <<timer_handle, handles>>

Stop ==
    /\ StopTimer
    /\ IF ~running
         THEN UNCHANGED hist
         ELSE /\ stopSeen' = stopSeen \cup (Outstanding \ {timer_handle})
                                        \cup Range(ready)
              /\ stopDuring' = stopDuring \cup suspended
              /\ everStopped' = TRUE
              /\ earlyStop' = /\ timer_handle # None
                              /\ handles[timer_handle].by = None
                              /\ now < handles[timer_handle].when
              /\ UNCHANGED lastCall
    /\ lastOp' = "stop"
    /\ UNCHANGED delayed
    /\ UNCHANGED <<now, ready, suspended>>

create_task_mut(h) == ready
\* eventloop.create_task(self._call_wrapper()): the task is queued, its body
\* begins in a later loop step
create_task(h) == Append(ready, h)

\* _schedule_task, run by the loop when handle h comes due
ScheduleTask(h) ==
    /\ h \in HandleIds
    /\ Due(h)
    /\ handles' = [handles EXCEPT ![h].st = "fired"]
    /\ timer_handle' = None
    /\ ready' = create_task(h)
    /\ lastOp' = "other"
    /\ UNCHANGED <<now, running, suspended, hist, delayed>>

EntryGuard_neg == ~running
EntryGuard_mut == TRUE
\* _call_wrapper: `if not self.running: return` lets the body go on iff running
EntryGuard == running

RescheduleGuard_neg == ~running
RescheduleGuard_mut == TRUE
\* _call_wrapper: `if self.running:` before the reschedule
RescheduleGuard == running

NextFireTime_now(ret) == now
NextFireTime_mut(ret) == ret - 1
\* _call_wrapper: call_at(ret, ...) uses the returned timestamp as it is
NextFireTime(ret) == ret

\* the tail of _call_wrapper once the callback's timestamp `ret` is known
Reschedule(h, ret) ==
    IF RescheduleGuard
      THEN /\ Len(handles) < MaxHandles
           /\ handles' = call_at(NextFireTime(ret), h)
           /\ timer_handle' = NewHandle
      ELSE UNCHANGED <<handles, timer_handle>>

\* the record of an invocation made by dispatch h; `stale` tells that stop()
\* had run while h was pending, prevAt is the time of the invocation before it
Invocation(h, res, ret) ==
    [h |-> h, at |-> now, res |-> res, ret |-> ret, stale |-> h \in stopSeen,
     prevAt |-> lastCall.at]

Propagate_mut(h) ==
    /\ Len(handles) < MaxHandles
    /\ handles' = call_at(now, h)
    /\ timer_handle' = NewHandle
\* the callback's exception leaves _call_wrapper: nothing after it runs
Propagate(h) == UNCHANGED <<handles, timer_handle>>

\* first step of the _call_wrapper task at the head of the queue:
\* from the entry check to its return or to `await ret`
CallWrapper(kind, ret) ==
    /\ ready # <<>>
    /\ LET h == Head(ready) IN
       /\ ready' = Tail(ready)
       /\ IF ~EntryGuard
            THEN UNCHANGED <<handles, timer_handle, suspended, lastCall>>
            ELSE CASE kind = "sync" ->
                        /\ lastCall' = Invocation(h, "ok", ret)
                        /\ Reschedule(h, ret)
                        /\ UNCHANGED suspended
                   [] kind = "raise" ->
                        /\ lastCall' = Invocation(h, "failed", 0)
                        /\ Propagate(h)
                        /\ UNCHANGED suspended
                   [] kind = "await" ->
                        /\ lastCall' = Invocation(h, "pending", 0)
                        /\ suspended' = suspended \cup {h}
                        /\ UNCHANGED <<handles, timer_handle>>
    /\ stopSeen' = stopSeen \ {Head(ready)}
    /\ lastOp' = "other"
    /\ UNCHANGED <<now, running, stopDuring, everStopped, earlyStop, delayed>>

\* the history keeps the outcome of the latest invocation only
Outcome(h, res, ret) ==
    IF lastCall.h = h THEN [lastCall EXCEPT !.res = res, !.ret = ret]
                      ELSE lastCall

\* the awaitable of suspended task h completes with `ret`, or fails
Resume(h, ok, ret) ==
    /\ h \in suspended
    /\ suspended' = suspended \ {h}
    /\ IF ok
         THEN /\ lastCall' = Outcome(h, "ok", ret)
              /\ Reschedule(h, ret)
         ELSE /\ lastCall' = Outcome(h, "failed", 0)
              /\ Propagate(h)
    /\ stopDuring' = stopDuring \ {h}
    /\ lastOp' = "other"
    /\ UNCHANGED <<now, running, ready, stopSeen, everStopped, earlyStop, delayed>>

\* the loop's clock advances
Tick ==
    /\ now < MaxTime
    /\ now' = now + 1
    /\ lastOp' = "other"
    /\ UNCHANGED <<running, timer_handle, handles, ready, suspended, hist, delayed>>

(* ---------------------------- specification ---------------------------- *)
Init ==
    /\ now = 0
    /\ running = FALSE
    /\ timer_handle = None
    /\ handles = <<>>
    /\ ready = <<>>
    /\ suspended = {}
    /\ lastCall = [h |-> None, at |-> 0, res |-> "none", ret |-> 0, stale |-> FALSE,
                   prevAt |-> 0]
    /\ stopSeen = {}
    /\ stopDuring = {}
    /\ everStopped = FALSE
    /\ earlyStop = FALSE
    /\ lastOp = "other"
    /\ delayed = <<>>

Next ==
    \/ \E d \in Delays : Start(d)
    \/ Stop
    \/ \E h \in HandleIds : ScheduleTask(h)
    \/ \E kind \in {"sync", "raise", "await"}, ret \in RetTimes : CallWrapper(kind, ret)
    \/ \E h \in suspended, ok \in BOOLEAN, ret \in RetTimes : Resume(h, ok, ret)
    \/ Tick

Spec == Init /\ [][Next]_vars


(* --------------------------- delay_callback ---------------------------- *)
DelayedIds == 1..Len(delayed)

MadeAtSubmit_mut(isCoro) == isCoro
\* delay_callback hands call_later the callback itself (a partial), not the
\* result of calling it: nothing is called or constructed at submission
MadeAtSubmit(isCoro) == FALSE

\* delay_callback(delay, callback): `coro` is inspect.iscoroutinefunction,
\* `made` tells that the callback has been called (for a coroutine function:
\* that its coroutine object has been constructed)
DelayCallback(delay, isCoro) ==
    /\ Len(delayed) < MaxDelayed
    /\ delayed' = Append(delayed, [when |-> now + delay, st |-> "scheduled",
                                   coro |-> isCoro, made |-> MadeAtSubmit(isCoro)])
    /\ UNCHANGED <<now, tvars, lastOp>>

\* the caller cancels the handle delay_callback returned
CancelDelayed(h) ==
    /\ h \in DelayedIds
    /\ delayed[h].st = "scheduled"
    /\ delayed' = [delayed EXCEPT ![h].st = "cancelled"]
    /\ UNCHANGED <<now, tvars, lastOp>>

\* the loop runs the due handle: _async_callback calls callback() and makes
\* a task of the coroutine, or the partial of a plain callback is called
RunDelayed(h) ==
    /\ h \in DelayedIds
    /\ delayed[h].st = "scheduled"
    /\ delayed[h].when <= now
    /\ delayed' = [delayed EXCEPT ![h].st = "fired", ![h].made = TRUE]
    /\ UNCHANGED <<now, tvars, lastOp>>

NextDelay ==
    \/ \E d \in Delays, isCoro \in BOOLEAN : DelayCallback(d, isCoro)
    \/ \E h \in DelayedIds : CancelDelayed(h)
    \/ \E h \in DelayedIds : RunDelayed(h)
    \/ Tick

SpecDelay == Init /\ [][NextDelay]_vars


(* ------------------- the timer left running for ever ------------------- *)
\* SpecLive is the timer that is never stopped, with a callback that never
\* fails, under the loop's fairness: a due handle is run, a queued task is
\* run, an awaited result arrives, the clock advances.  Its behaviours are
\* infinite, so the state is kept finite by two steps that change nothing of
\* the program: Forget drops the handles that are spent (neither scheduled,
\* nor queued, nor suspended) and renumbers the others, Rebase moves the
\* origin of the loop time to the present.
LiveIds ==
    {h \in HandleIds :
        handles[h].st = "scheduled" \/ h \in Range(ready) \/ h \in suspended}

NewId(h) == IF h \in LiveIds THEN Cardinality({g \in LiveIds : g <= h}) ELSE None

OldId(i) == CHOOSE h \in LiveIds : NewId(h) = i

Forget ==
    /\ LiveIds # HandleIds
    /\ handles' = [i \in 1..Cardinality(LiveIds) |->
                      [handles[OldId(i)] EXCEPT !.by = NewId(@)]]
    /\ timer_handle' = NewId(timer_handle)
    /\ ready' = [i \in 1..Len(ready) |-> NewId(ready[i])]
    /\ suspended' = {NewId(h) : h \in suspended}
    /\ lastCall' = [lastCall EXCEPT !.h = NewId(@)]
    /\ stopSeen' = {NewId(h) : h \in stopSeen}
    /\ stopDuring' = {NewId(h) : h \in stopDuring}
    /\ UNCHANGED <<now, running, everStopped, earlyStop, lastOp, delayed>>

Since(t) == IF t > now THEN t - now ELSE 0

Rebase ==
    /\ now > 0
    /\ now' = 0
    /\ handles' = [i \in HandleIds |-> [handles[i] EXCEPT !.when = Since(@)]]
    /\ lastCall' = [lastCall EXCEPT !.at = Since(@), !.ret = Since(@),
                                    !.prevAt = Since(@)]
    /\ UNCHANGED <<running, timer_handle, ready, suspended, stopSeen, stopDuring,
                   everStopped, earlyStop, lastOp, delayed>>

LiveFire == \E h \in HandleIds : ScheduleTask(h)

LiveTask == \E kind \in {"sync", "await"}, ret \in RetTimes : CallWrapper(kind, ret)

LiveResume == \E h \in suspended, ret \in RetTimes : Resume(h, TRUE, ret)

NextLive ==
    \/ \E d \in Delays : Start(d)
    \/ LiveFire
    \/ LiveTask
    \/ LiveResume
    \/ Tick
    \/ Forget
    \/ Rebase

SpecLive ==
    /\ Init
    /\ [][NextLive]_vars
    /\ WF_vars(LiveFire)
    /\ WF_vars(LiveTask)
    /\ WF_vars(LiveResume)
    /\ WF_vars(Tick)
    /\ WF_vars(Forget)
    /\ WF_vars(Rebase)


(* ------------------------- steps, seen from outside -------------------- *)
\* a step in which the user callback is invoked
Invoked == lastCall'.h # lastCall.h

\* a step in which the head of the task queue runs its first step
TaskRuns == ready # <<>> /\ ready' = Tail(ready)

\* a step in which the latest invocation fails
Fails == lastCall' # lastCall /\ lastCall'.res = "failed"

\* a step in which call_at is called once, for time `when`
Schedules(when) ==
    /\ Len(handles') = Len(handles) + 1
    /\ \A h \in HandleIds : handles'[h] = handles[h]
    /\ handles'[NewHandle].when = when
    /\ handles'[NewHandle].st = "scheduled"
    /\ timer_handle' = NewHandle

\* the handle start() scheduled is still pending and not yet due
StartPending ==
    /\ timer_handle # None
    /\ handles[timer_handle].by = None
    /\ handles[timer_handle].st = "scheduled"
    /\ now < handles[timer_handle].when

\* nothing of the timer is left with the loop
Quiet == Outstanding = {} /\ ready = <<>> /\ suspended = {}

\* the state a failed callback leaves a never-stopped timer in
Disabled ==
    /\ running
    /\ timer_handle = None
    /\ Quiet
    /\ lastCall.res = "failed"

(* -------------------------------- claims ------------------------------- *)

\* C1: a dispatch that was pending (handle scheduled, or task queued and not
\* begun) when stop() ran never invokes the callback, whatever happens before
\* its task body runs, a later start() included.
C1_StoppedDispatchNeverInvokes == ~lastCall.stale

\* C2: a task queued before stop() that finds the timer Stopped when its body
\* runs returns without invoking the callback and without scheduling; and a
\* stop() that finds the handle already spent (timer_handle None, task queued)
\* stops the timer and cancels nothing.
C2_StoppedTaskAborts ==
    [][ /\ (TaskRuns /\ Head(ready) \in stopSeen /\ ~running)
            => (~Invoked /\ handles' = handles /\ timer_handle' = timer_handle
                /\ suspended' = suspended)
        /\ (lastOp' = "stop" /\ running /\ timer_handle = None /\ ready # <<>>)
            => (~running' /\ handles' = handles /\ timer_handle' = None
                /\ ready' = ready)
      ]_vars

\* a queued task met a Stopped timer and went away without an invocation:
\* a handle has fired, its task is gone, and the callback was never invoked
C2_Witness ==
    /\ ~running
    /\ lastCall.h = None
    /\ \E h \in HandleIds :
          handles[h].st = "fired" /\ h \notin Range(ready) /\ h \notin suspended

\* C3: once stop() has cancelled the handle of start(d) before its fire time,
\* and as long as start() is not called again, the callback is not invoked
\* and the cancelled handle never fires.
C3_EarlyStopNeverInvokes ==
    [][ /\ (earlyStop /\ ~running) => ~Invoked
        /\ \A h \in HandleIds :
              handles[h].st = "cancelled" => handles'[h].st = "cancelled"
        /\ (running /\ earlyStop')
              => (/\ ~running'
                  /\ timer_handle' = None
                  /\ handles'[timer_handle].st = "cancelled")
      ]_vars

\* start(d), stop() before now + d, and the loop time has passed the fire time
C3_Witness ==
    /\ earlyStop
    /\ ~running
    /\ lastCall.h = None
    /\ \E h \in HandleIds :
          /\ handles[h].by = None
          /\ handles[h].st = "cancelled"
          /\ handles[h].when < now

\* C4: at most one uncancelled, not yet fired scheduling request is
\* outstanding, and it is the one timer_handle references.
C4_AtMostOneOutstanding ==
    /\ Cardinality(Outstanding) <= 1
    /\ Outstanding \subseteq {timer_handle}

\* C5: whenever the timer is Stopped no uncancelled scheduled dispatch is
\* outstanding with the loop.
C5_StoppedLeavesNothingScheduled == ~running => Outstanding = {}

\* C6: start() on a Running timer changes neither running, timer_handle nor
\* what is outstanding with the loop.
C6_StartWhileRunningNoOp ==
    [][ (lastOp' = "start" /\ running)
            => (/\ running' = running
                /\ timer_handle' = timer_handle
                /\ handles' = handles
                /\ ready' = ready
                /\ suspended' = suspended)
      ]_vars

\* start() was called on a Running timer whose pending handle a reschedule
\* had set: still one pending schedule
C6_Witness ==
    /\ lastOp = "start"
    /\ running
    /\ timer_handle # None
    /\ handles[timer_handle].by # None
    /\ Outstanding = {timer_handle}

\* C7: an invocation that was suspended when stop() ran is not aborted, and
\* when it completes no dispatch is scheduled and timer_handle stays None.
C7_StopDuringInvocation ==
    [][ /\ \A h \in suspended : (lastOp' = "stop") => h \in suspended'
        /\ \A h \in stopDuring :
              (h \in suspended /\ h \notin suspended')
                  => (handles' = handles /\ timer_handle = None
                      /\ timer_handle' = None)
      ]_vars

\* C7 with the timer still Stopped at completion (holds; used to locate the
\* divergence)
C7_StillStopped ==
    [][ \A h \in stopDuring :
           (h \in suspended /\ h \notin suspended' /\ ~running)
               => (handles' = handles /\ timer_handle = None
                   /\ timer_handle' = None)
      ]_vars

\* C8 as stated: a failing callback schedules nothing and leaves the timer
\* with running = True and timer_handle = None (stated for the dispatches no
\* stop() came across before their task began, those of C1 apart).
C8_Original ==
    [][ (Fails /\ ~lastCall'.stale)
            => (handles' = handles /\ running' /\ timer_handle' = None) ]_vars

\* C8 amended: a failing callback schedules nothing and leaves running and
\* timer_handle as they were; on a timer that was never stopped that is
\* running = True, timer_handle = None and nothing left with the loop, and
\* from there the callback is not invoked again until stop() is called
\* (and, the timer then being Stopped, start()).
C8_FailureDisablesTimer ==
    [][ /\ Fails => (/\ handles' = handles
                     /\ running' = running
                     /\ timer_handle' = timer_handle
                     /\ Len(ready') <= Len(ready))
        /\ (Fails /\ ~everStopped) => Disabled'
        /\ Disabled => (~Invoked /\ (Disabled' \/ ~running'))
      ]_vars

\* a callback has failed on a never-stopped timer, time has passed since and
\* start() was called again, and the timer is still disabled
C8_Witness ==
    /\ Disabled
    /\ ~everStopped
    /\ lastOp = "start"
    /\ lastCall.at < now

\* C9: on a timer started once and never stopped, when the previous
\* invocation returned a timestamp at least k after its own invocation time
\* (it returned now() + k), the next invocation is at least k later.
C9_GapAtLeastK ==
    [][ (Invoked /\ ~everStopped /\ lastCall.h # None)
            => \A k \in 1..MaxDelay :
                  (lastCall.ret - lastCall.at >= k)
                      => (lastCall'.at - lastCall.at >= k)
      ]_vars

\* a second invocation on a never-stopped timer, a full period after the
\* first, from the handle the first one's return value scheduled
C9_Witness ==
    /\ ~everStopped
    /\ lastCall.h # None
    /\ handles[lastCall.h].by # None
    /\ handles[lastCall.h].when - lastCall.prevAt >= 1
    /\ lastCall.at - lastCall.prevAt >= 1

\* C10, first part: start(d) on a Stopped timer sets running, schedules
\* exactly one dispatch at now + d and stores its handle in timer_handle.
C10_StartSchedules ==
    [][ (lastOp' = "start" /\ ~running)
            => (running' /\ \E d \in Delays : Schedules(now + d)) ]_vars

\* C10: start(d) on a Stopped timer sets running, schedules exactly one
\* dispatch at now + d, stores its handle in timer_handle, and the callback
\* is not invoked before the loop time reaches now + d.
C10_StartDelaysInvocation ==
    [][ /\ (lastOp' = "start" /\ ~running)
            => (running' /\ \E d \in Delays : Schedules(now + d))
        /\ StartPending => ~Invoked
      ]_vars


\* C11: a Stopped timer has no handle: running = False implies timer_handle
\* is None.
C11_StoppedHasNoHandle == ~running => timer_handle = None

\* the timer was stopped while an invocation was suspended, and the
\* invocation has completed since: still no handle
C11_Witness ==
    /\ ~running
    /\ timer_handle = None
    /\ lastOp = "other"
    /\ lastCall.res = "ok"
    /\ suspended = {}
    /\ ready = <<>>
    /\ everStopped

\* C12 as stated: a Running timer has a pending handle in timer_handle or an
\* active callback invocation (the transient between the callback's return
\* and the reschedule is inside one step here).
C12_Original == running => (timer_handle # None \/ suspended # {})

\* C12 amended: a Running timer has a pending handle in timer_handle, or a
\* queued invocation task whose body has not begun, or an active callback
\* invocation, or its latest callback invocation has failed.
C12_RunningHasWork ==
    running => \/ timer_handle # None
               \/ ready # <<>>
               \/ suspended # {}
               \/ lastCall.res = "failed"

\* a Running timer between the firing of its handle and the task body
C12_Witness ==
    /\ running
    /\ timer_handle = None
    /\ suspended = {}
    /\ ready # <<>>
    /\ lastCall.res = "ok"

\* C13: stop() on a Stopped timer changes neither running, timer_handle, the
\* handles (none is cancelled) nor the queued tasks and suspended invocations.
C13_StopWhileStoppedNoOp ==
    [][ (lastOp' = "stop" /\ ~running)
            => (/\ running' = running
                /\ timer_handle' = timer_handle
                /\ handles' = handles
                /\ ready' = ready
                /\ suspended' = suspended)
      ]_vars

\* a task has met the Stopped timer and gone away without an invocation, and
\* stop() was called again after that
C13_Witness ==
    /\ lastOp = "stop"
    /\ ~running
    /\ lastCall.h = None
    /\ \E h \in HandleIds :
          handles[h].st = "fired" /\ h \notin Range(ready) /\ h \notin suspended

\* C15: when an invocation completes with the timer Running, exactly one
\* dispatch is scheduled, at the timestamp the callback returned, in the step
\* of the completion (nothing is scheduled when an invocation suspends), and
\* its handle is stored in timer_handle.
C15_RescheduleAtReturnedTime ==
    [][ /\ (lastCall' # lastCall /\ lastCall'.res = "ok" /\ running)
            => Schedules(lastCall'.ret)
        /\ (Invoked /\ lastCall'.res = "pending")
            => (handles' = handles /\ timer_handle' = timer_handle)
      ]_vars

\* an invocation that suspended has completed later and the next dispatch is
\* at the timestamp it returned, beyond what it could return when invoked
C15_Witness ==
    /\ lastCall.res = "ok"
    /\ lastCall.ret > lastCall.at + MaxDelay
    /\ timer_handle # None
    /\ handles[timer_handle].by = lastCall.h
    /\ handles[timer_handle].when = lastCall.ret
    /\ handles[timer_handle].st = "scheduled"

\* a step in which the loop runs a due handle
Fires == \E h \in HandleIds : handles[h].st = "scheduled" /\ handles'[h].st = "fired"

\* C16: the firing of a handle (_schedule_task) does not invoke the callback:
\* it sets timer_handle to None and queues one task; the invocation is a
\* later step, and a task that finds the timer Stopped does not invoke.
C16_FiringOnlyQueues ==
    [][ /\ Fires => (/\ ~Invoked
                     /\ timer_handle' = None
                     /\ Len(ready') = Len(ready) + 1
                     /\ SubSeq(ready', 1, Len(ready)) = ready
                     /\ handles[ready'[Len(ready')]].st = "scheduled"
                     /\ handles'[ready'[Len(ready')]].st = "fired"
                     /\ suspended' = suspended
                     /\ running' = running)
        /\ Invoked => (TaskRuns /\ ~Fires /\ running)
      ]_vars

\* stop() came between the firing of the handle and the body of its task
C16_Witness ==
    /\ lastOp = "stop"
    /\ ~running
    /\ ~earlyStop
    /\ Len(ready) = 1
    /\ handles[ready[1]].st = "fired"
    /\ lastCall.h = None

\* C17: at most one invocation of the callback is active at any time.
C17_NoOverlappingInvocations == Cardinality(suspended) <= 1

\* the timer is Running with no handle in timer_handle after a failure
FailedIdle ==
    /\ running
    /\ timer_handle = None
    /\ lastCall.res = "failed"

\* C19: once a failure has left the timer Running with no pending handle,
\* start() changes nothing, and nothing is scheduled and the callback is not
\* invoked until stop() has been called.
C19_FailedTimerNeedsRestart ==
    [][ FailedIdle => (/\ handles' = handles
                       /\ ~Invoked
                       /\ (lastOp' = "start" =>
                              (running' /\ timer_handle' = None)))
      ]_vars

\* C19 when nothing else of the timer is left with the loop (holds)
C19_QuietFailedTimer ==
    [][ Disabled => (/\ handles' = handles
                     /\ ~Invoked
                     /\ (lastOp' = "start" =>
                            (running' /\ timer_handle' = None)))
      ]_vars


\* C14: the coroutine object of a suspending callback given to
\* delay_callback exists only once its handle has fired, which is not before
\* the delay has elapsed: not at submission, and never when the handle was
\* cancelled first.
C14_CoroutineMadeAtFireTime ==
    \A h \in DelayedIds :
        delayed[h].coro =>
            /\ delayed[h].made => (delayed[h].st = "fired" /\ delayed[h].when <= now)
            /\ delayed[h].st # "fired" => ~delayed[h].made

\* a suspending callback cancelled before its delay elapsed, still without a
\* coroutine object after the fire time, and one that fired and has its own
C14_Witness ==
    \E h, g \in DelayedIds :
        /\ delayed[h].coro /\ delayed[h].st = "cancelled"
        /\ delayed[h].when <= now /\ ~delayed[h].made
        /\ delayed[g].coro /\ delayed[g].st = "fired" /\ delayed[g].made
        /\ delayed[g].when >= 1


\* a task step in which the callback is invoked
TaskInvokes == TaskRuns /\ lastCall' # lastCall /\ lastCall'.h = Head(ready)

\* C18: under the loop's fairness a timer that is started and never stopped,
\* whose callback never fails, invokes its callback again and again: either
\* the timer is never started, or the callback is invoked infinitely often.
C18_InvokedInfinitelyOften == []~running \/ []<><<TaskInvokes>>_vars

\* the timer has been invoked, the spent dispatch of that invocation has
\* been forgotten, and the next dispatch is pending
C18_Witness ==
    /\ running
    /\ ~everStopped
    /\ lastCall.res = "ok"
    /\ lastCall.h = None
    /\ timer_handle # None
    /\ handles[timer_handle].st = "scheduled"

=============================================================================
